---- MODULE Spec2Model ----
(***************************************************************************)
(* A model of decillion/go-cmap: the fixed-capacity hash map hmap.Map      *)
(* (bucket chains of entries, logical deletion, one writer and many        *)
(* lock-free readers) and the resizable maps built on it.                  *)
(*                                                                         *)
(* Memory is modelled explicitly.  A table is a record                     *)
(*   first  : bucket index -> entry pointer   (bucket.first)               *)
(*   bstat  : bucket index -> counter         (bucket.numOfEntries)        *)
(*   ent    : entry pointer -> [key, value, next]                          *)
(*   numOfEntries, numOfDeleted, largestBucket : the map's statistics      *)
(* Entry pointers are indexes into ent; nil is the null pointer.  Every    *)
(* atomic load or store of the Go code that another goroutine can observe  *)
(* is one step of the goroutine that performs it.                          *)
(***************************************************************************)
EXTENDS Integers, Sequences, FiniteSets, TLC

\* ------------------------------------------------------------------ bounds
Capacity  == 2      \* capacity given to hmap.NewMap by a direct user of hmap
MaxKey    == 2      \* a direct user of hmap uses the keys 1..MaxKey
Prefill   == 96     \* keys 1..Prefill are stored in the resizable map, one
                    \* after the other, before its goroutines start
MaxOps    == 3      \* calls the updating goroutines of a resizable map make
BenchFill == 63     \* keys the benchmark's setup stores before its goroutines run

\* The calls the two goroutines of the cmap program make between them.
CmapOps == 3

\* The calls made on the map of src/hmap.go's second version.
HmapOps == 4

\* The keys the filling and emptying run stores and deletes.
GrowKeys == 97

Keys   == 1..MaxKey
\* The code never looks into a value: it only compares the value pointer of
\* an entry with the deleted marker.  Two distinct values tell an overwrite
\* from the value it replaces.
Values == {1, 2}

\* --------------------------------------------------------------- constants
nil      == 0       \* the null pointer / the nil interface value
deleted  == -1      \* value marker of a logically deleted entry
terminal == -2      \* key marker of a bucket's sentinel entry

iniMapCap  == 16
minMapSize == 64
lowerBound == 2
defaultLF  == 4
upperBound == 6

\* The constants of the Map of cmap_benchmark_test.go.
iniCapacity   == 16
minLoadFactor == 2
midLoadFactor == 4
maxBucketSize == 12
BenchMinMapSize == iniCapacity * midLoadFactor
possible   == 0
impossible == 1

Threads == 1..3

VARIABLES
    tables,     \* every hmap.Map allocated so far (old ones stay: readers may hold them)
    hm,         \* the outer map's atomic.Value: index of the current table
    mu,         \* the outer map's sync.Mutex: 0, or the thread holding it
    pc,         \* pc[t]: where goroutine t is
    loc,        \* loc[t]: the locals of goroutine t's current call
    ref,        \* history: the reference dictionary (key -> value, or nil)
    cands,      \* history: cands[t] is the set of states (a value, or nil for
                \* absent) the key of t's Load or LoadOrStore has had in the
                \* reference dictionary since that call began; for a Range
                \* call, the <<key, state>> pairs the dictionary has held
                \* since the call began
    ops,        \* the number of update calls the goroutines have made on the
                \* resizable map
    filled,     \* the number of keys stored before the goroutines started
    won,        \* history: the <<key, value>> of every LoadOrStore that stored
    touched,    \* history: the keys a goroutine's Store or Delete call named
    resize      \* the benchmark file's Map.resize flag

vars == <<tables, hm, mu, pc, loc, ref, cands, ops, filled, won, touched, resize>>

\* ------------------------------------------------------------ hmap: pure
\* The hash function is a parameter of NewMap (concmap passes
\* hashers.TypeHasher32).  This one gives the keys 2n-1 and 2n the same hash,
\* so that chains hold several keys whatever the number of buckets is.  Its
\* results and the uint counters stay far below 2^32 for the keys and the
\* numbers of calls of this model, so no arithmetic here wraps around.
Hasher(key) == (key + 1) \div 2

Inc(x) == x + 1
Dec(x) == x - 1

NewMap(capacity) ==
    [ first |-> [i \in 1..capacity |-> i],
      bstat |-> [i \in 1..capacity |-> 0],
      ent   |-> [i \in 1..capacity |-> [key |-> terminal, value |-> nil, next |-> nil]],
      numOfEntries  |-> 0,
      numOfDeleted  |-> 0,
      largestBucket |-> 0 ]

BucketOf(T, key) == (Hasher(key) % Len(T.first)) + 1

\* The writer's walk of a chain: no other goroutine changes the chain meanwhile.
RECURSIVE Walk(_, _, _)
Walk(T, e, key) ==
    IF e = nil THEN nil
    ELSE IF T.ent[e].key = key \/ T.ent[e].key = terminal THEN e
    ELSE Walk(T, T.ent[e].next, key)

\* A lookup that compares the key of the first entry of the chain only.
findEntryHeadOnly(T, key) ==
    LET b == BucketOf(T, key)
        e == T.first[b]
    IN  [b |-> b, e |-> e, ok |-> T.ent[e].key = key]

\* A lookup that takes a tombstoned entry for no entry at all: it reports
\* the bucket's sentinel and false.
findEntryMissesDeleted(T, key) ==
    LET b == BucketOf(T, key)
        e == Walk(T, T.first[b], key)
    IN  IF e # nil /\ T.ent[e].key = key /\ T.ent[e].value # deleted
        THEN [b |-> b, e |-> e, ok |-> TRUE]
        ELSE [b |-> b, e |-> b, ok |-> FALSE]

findEntry(T, key) ==
    LET b == BucketOf(T, key)
        e == Walk(T, T.first[b], key)
    IN  [b |-> b, e |-> e, ok |-> (e # nil /\ T.ent[e].key = key)]

\* An overwrite that stores the value and leaves the tombstone counter alone.
StoreFoundKeepsCount(T, e, value) == [T EXCEPT !.ent[e].value = value]

\* An overwrite that fixes the tombstone counter and leaves the old value.
StoreFoundKeepsValue(T, e, value) ==
    [T EXCEPT !.numOfDeleted = IF T.ent[e].value = deleted THEN Dec(@) ELSE @]

\* Store, key found: fix the tombstone counter, then e.storeValue(value).
StoreFound(T, e, value) ==
    [T EXCEPT !.numOfDeleted = IF T.ent[e].value = deleted THEN Dec(@) ELSE @,
              !.ent[e].value = value]

\* An insertion that links the new entry into the bucket as it allocates it,
\* before its value and its next pointer are set.
StoreAllocLinked(T, b, key) ==
    [T EXCEPT !.numOfEntries = Inc(@),
              !.bstat[b] = Inc(@),
              !.largestBucket = IF Inc(T.bstat[b]) > @ THEN Inc(@) ELSE @,
              !.ent = Append(@, [key |-> key, value |-> nil, next |-> nil]),
              !.first[b] = Len(T.ent) + 1]

\* An insertion that forgets the bucket's own counter.
StoreAllocNoBucketCount(T, b, key) ==
    [T EXCEPT !.numOfEntries = Inc(@),
              !.largestBucket = IF Inc(T.bstat[b]) > @ THEN Inc(@) ELSE @,
              !.ent = Append(@, [key |-> key, value |-> nil, next |-> nil])]

\* Store, key not found: the counters, then newEntry := &entry{key: key}.
StoreAlloc(T, b, key) ==
    [T EXCEPT !.numOfEntries = Inc(@),
              !.bstat[b] = Inc(@),
              !.largestBucket = IF Inc(T.bstat[b]) > @ THEN Inc(@) ELSE @,
              !.ent = Append(@, [key |-> key, value |-> nil, next |-> nil])]

\* newEntry.storeValue(value)
StoreNewValue(T, n, value) == [T EXCEPT !.ent[n].value = value]

\* A link step that points the new entry at itself.
StoreNewNextSelf(T, b, n) == [T EXCEPT !.ent[n].next = n]

\* newEntry.storeNext(b.loadFirst())
StoreNewNext(T, b, n) == [T EXCEPT !.ent[n].next = T.first[b]]

\* b.storeFirst(newEntry)
StoreNewFirst(T, b, n) == [T EXCEPT !.first[b] = n]

\* The whole of Map.Store, run without interruption.
hStore(T, key, value) ==
    LET f == findEntry(T, key) IN
    IF f.ok THEN StoreFound(T, f.e, value)
    ELSE LET T1 == StoreAlloc(T, f.b, key)
             n  == Len(T1.ent)
         IN  StoreNewFirst(StoreNewNext(StoreNewValue(T1, n, value), f.b, n), f.b, n)

\* A removal that counts a tombstone whenever it finds an entry.
DeleteFoundCountsAgain(T, e) ==
    [T EXCEPT !.numOfDeleted = Inc(@), !.ent[e].value = deleted]

\* A removal that counts the tombstone and leaves the value in place.
DeleteFoundCountOnly(T, e) ==
    [T EXCEPT !.numOfDeleted = IF T.ent[e].value # deleted THEN Inc(@) ELSE @]

\* Delete, key found: count a new tombstone, then e.storeValue(deleted).
DeleteFound(T, e) ==
    [T EXCEPT !.numOfDeleted = IF T.ent[e].value # deleted THEN Inc(@) ELSE @,
              !.ent[e].value = deleted]

\* The whole of Map.Delete.
hDelete(T, key) ==
    LET f == findEntry(T, key) IN
    IF f.ok THEN DeleteFound(T, f.e) ELSE T

\* The whole of Map.Load on a table nobody is writing: <<value, ok>>.
hLoad(T, key) ==
    LET f == findEntry(T, key) IN
    IF f.ok /\ T.ent[f.e].value # deleted THEN <<T.ent[f.e].value, TRUE>>
    ELSE <<nil, FALSE>>

\* Map.Range on a table nobody is writing: the <<key, value>> pairs handed to
\* the visitor, in order.  The value the visitor returns is not looked at.
RECURSIVE RangeChain(_, _)
RangeChain(T, e) ==
    IF e = nil \/ T.ent[e].key = terminal THEN <<>>
    ELSE (IF T.ent[e].value = deleted THEN <<>>
          ELSE << <<T.ent[e].key, T.ent[e].value>> >>)
         \o RangeChain(T, T.ent[e].next)

RECURSIVE RangeFrom(_, _)
RangeFrom(T, bi) ==
    IF bi > Len(T.first) THEN <<>>
    ELSE RangeChain(T, T.first[bi]) \o RangeFrom(T, bi + 1)

hRange(T) == RangeFrom(T, 1)

\* ------------------------------------------------------- goroutine locals
NoCall ==
    [ op |-> "none", key |-> 0, val |-> 0,
      h |-> 0,              \* the *hmap.Map the call works on
      b |-> 0, e |-> 0,     \* bucket index and entry pointer of the walk
      bi |-> 0,             \* Range: the bucket being walked
      ret |-> nil, ok |-> FALSE,    \* the results of Load / LoadOrStore
      old |-> nil,          \* Store, Delete: v := e.loadValue() of the entry
                            \* found (nil: no entry has the key)
      slow |-> FALSE,       \* LoadOrStore: the call went on to take the mutex
      lin |-> nil,          \* history: what the reference dictionary held for
                            \* key when LoadOrStore looked it up under the mutex
      was |-> nil,          \* history: what the current table held for key
                            \* when LoadOrStore was called
      cont |-> "none",      \* where the call continues when the hmap method returns
      seen |-> <<>>,        \* Range: the pairs handed to the visitor so far
      go |-> TRUE,          \* Range: what the visitor f answers
      stopped |-> FALSE,    \* Range: the visitor has returned false
      late |-> FALSE ]      \* Range: the visitor was called after it returned false

Tab(t) == tables[loc[t].h]

SetTab(t, T) == tables' = [tables EXCEPT ![loc[t].h] = T]

\* The history variables at the linearization point of a write.
Tracked(u, key) ==
    /\ pc[u] \notin {"idle", "ret"}
    /\ loc[u].op \in {"Load", "LoadOrStore"}
    /\ loc[u].key = key

\* A Range call in progress.
Ranging(u) == pc[u] \notin {"idle", "ret"} /\ loc[u].op = "Range"

\* What the reference dictionary holds, key by key (nil: nothing).  A Range
\* of a resizable map starts its history with it; a Range called on hmap
\* directly keeps none.
RefStates == {<<k, ref[k]>> : k \in DOMAIN ref}

Note(key, x) ==
    /\ ref' = [ref EXCEPT ![key] = x]
    /\ cands' = [u \in Threads |->
                    IF Tracked(u, key) THEN cands[u] \cup {x}
                    ELSE IF Ranging(u) /\ cands[u] # {}
                         THEN cands[u] \cup {<<key, x>>}
                    ELSE cands[u]]

NoteStore(key, value) == Note(key, value)

NoteDelete(key) == Note(key, nil)

\* ----------------------------------------------------- hmap.Map.findEntry
\* What findEntry does with the entry pointer p it has just loaded: go on to
\* the next entry, or leave the loop with ok = (e.key == key).  Load returns
\* (nil, false) at once when the key is not found.
Found(t, p) ==
    IF p = nil THEN
        /\ pc' = [pc EXCEPT ![t] = "panic"]
        /\ loc' = [loc EXCEPT ![t].e = p]
    ELSE IF Tab(t).ent[p].key # loc[t].key /\ Tab(t).ent[p].key # terminal THEN
        /\ pc' = [pc EXCEPT ![t] = "find_next"]
        /\ loc' = [loc EXCEPT ![t].e = p]
    ELSE IF Tab(t).ent[p].key = loc[t].key THEN
        /\ pc' = [pc EXCEPT ![t] = "load_val"]
        /\ loc' = [loc EXCEPT ![t].e = p]
    ELSE
        /\ pc' = [pc EXCEPT ![t] = loc[t].cont]
        /\ loc' = [loc EXCEPT ![t].e = p, ![t].ret = nil, ![t].ok = FALSE]

\* i := hasher(key) % len(buckets); e = b.loadFirst()
FindFirst(t) ==
    /\ pc[t] = "find_first"
    /\ Found(t, Tab(t).first[BucketOf(Tab(t), loc[t].key)])
    /\ UNCHANGED <<tables, hm, mu, ref, cands, ops, filled, won, touched, resize>>

\* e = e.loadNext()
FindNext(t) ==
    /\ pc[t] = "find_next"
    /\ Found(t, Tab(t).ent[loc[t].e].next)
    /\ UNCHANGED <<tables, hm, mu, ref, cands, ops, filled, won, touched, resize>>

\* ---------------------------------------------------------- hmap.Map.Load
\* v := e.loadValue(); v != deleted decides the result.  Dereferencing a
\* value pointer that was never stored panics.
LoadValue(t) ==
    /\ pc[t] = "load_val"
    /\ LET v == Tab(t).ent[loc[t].e].value IN
       IF v = nil THEN
           /\ pc' = [pc EXCEPT ![t] = "panic"]
           /\ UNCHANGED loc
       ELSE
           /\ pc' = [pc EXCEPT ![t] = loc[t].cont]
           /\ loc' = [loc EXCEPT ![t].ret = IF v # deleted THEN v ELSE nil,
                                 ![t].ok = (v # deleted)]
    /\ UNCHANGED <<tables, hm, mu, ref, cands, ops, filled, won, touched, resize>>

\* --------------------------------------------------------- hmap.Map.Store
\* findEntry, then either the update in place (one atomic store, the
\* linearization point) or the counters and the allocation of the new entry.
StoreBegin(t) ==
    /\ pc[t] = "h_store"
    /\ LET f == findEntry(Tab(t), loc[t].key) IN
       IF f.ok THEN
           /\ SetTab(t, StoreFound(Tab(t), f.e, loc[t].val))
           /\ NoteStore(loc[t].key, loc[t].val)
           /\ pc' = [pc EXCEPT ![t] = loc[t].cont]
           /\ loc' = [loc EXCEPT ![t].b = f.b, ![t].e = f.e,
                                 ![t].old = Tab(t).ent[f.e].value]
       ELSE
           /\ SetTab(t, StoreAlloc(Tab(t), f.b, loc[t].key))
           /\ UNCHANGED <<ref, cands>>
           /\ pc' = [pc EXCEPT ![t] = "st_val"]
           /\ loc' = [loc EXCEPT ![t].b = f.b, ![t].e = Len(Tab(t).ent) + 1]
    /\ UNCHANGED <<hm, mu, ops, filled, won, touched, resize>>

StoreValueStep(t) ==
    /\ pc[t] = "st_val"
    /\ SetTab(t, StoreNewValue(Tab(t), loc[t].e, loc[t].val))
    /\ pc' = [pc EXCEPT ![t] = "st_next"]
    /\ UNCHANGED <<hm, mu, loc, ref, cands, ops, filled, won, touched, resize>>

StoreNextStep(t) ==
    /\ pc[t] = "st_next"
    /\ SetTab(t, StoreNewNext(Tab(t), loc[t].b, loc[t].e))
    /\ pc' = [pc EXCEPT ![t] = "st_first"]
    /\ UNCHANGED <<hm, mu, loc, ref, cands, ops, filled, won, touched, resize>>

StoreFirstStep(t) ==
    /\ pc[t] = "st_first"
    /\ SetTab(t, StoreNewFirst(Tab(t), loc[t].b, loc[t].e))
    /\ NoteStore(loc[t].key, loc[t].val)
    /\ pc' = [pc EXCEPT ![t] = loc[t].cont]
    /\ UNCHANGED <<hm, mu, loc, ops, filled, won, touched, resize>>

\* -------------------------------------------------------- hmap.Map.Delete
DeleteStep(t) ==
    /\ pc[t] = "h_delete"
    /\ SetTab(t, hDelete(Tab(t), loc[t].key))
    /\ NoteDelete(loc[t].key)
    /\ pc' = [pc EXCEPT ![t] = loc[t].cont]
    /\ LET f == findEntry(Tab(t), loc[t].key) IN
       loc' = [loc EXCEPT ![t].b = f.b, ![t].e = f.e,
                          ![t].old = IF f.ok THEN Tab(t).ent[f.e].value ELSE nil]
    /\ UNCHANGED <<hm, mu, ops, filled, won, touched, resize>>

\* --------------------------------------------------------- hmap.Map.Range
\* What Range does with the entry pointer p it has just loaded in bucket bi:
\* the chain's loop ends at the sentinel and the next bucket is taken.
Ranged(t, p) ==
    IF p = nil THEN
        /\ pc' = [pc EXCEPT ![t] = "panic"]
        /\ loc' = [loc EXCEPT ![t].e = p]
    ELSE IF Tab(t).ent[p].key # terminal THEN
        /\ pc' = [pc EXCEPT ![t] = "rg_val"]
        /\ loc' = [loc EXCEPT ![t].e = p]
    ELSE IF loc[t].bi < Len(Tab(t).first) THEN
        /\ pc' = [pc EXCEPT ![t] = "rg_first"]
        /\ loc' = [loc EXCEPT ![t].e = p, ![t].bi = @ + 1]
    ELSE
        /\ pc' = [pc EXCEPT ![t] = loc[t].cont]
        /\ loc' = [loc EXCEPT ![t].e = p]

\* e := b.loadFirst()
RangeFirst(t) ==
    /\ pc[t] = "rg_first"
    /\ Ranged(t, Tab(t).first[loc[t].bi])
    /\ UNCHANGED <<tables, hm, mu, ref, cands, ops, filled, won, touched, resize>>

\* v := e.loadValue(); a tombstone is skipped, anything else goes to f, whose
\* result is dropped.
RangeValue(t) ==
    /\ pc[t] = "rg_val"
    /\ LET v == Tab(t).ent[loc[t].e].value IN
       IF v = nil THEN
           /\ pc' = [pc EXCEPT ![t] = "panic"]
           /\ UNCHANGED loc
       ELSE IF v = deleted THEN
           /\ pc' = [pc EXCEPT ![t] = "rg_next"]
           /\ UNCHANGED loc
       ELSE
           /\ pc' = [pc EXCEPT ![t] = "rg_next"]
           /\ loc' = [loc EXCEPT
                  ![t].seen = Append(@, <<Tab(t).ent[loc[t].e].key, v>>),
                  ![t].late = @ \/ loc[t].stopped,
                  ![t].stopped = @ \/ ~loc[t].go]
    /\ UNCHANGED <<tables, hm, mu, ref, cands, ops, filled, won, touched, resize>>

\* e = e.loadNext()
RangeNext(t) ==
    /\ pc[t] = "rg_next"
    /\ Ranged(t, Tab(t).ent[loc[t].e].next)
    /\ UNCHANGED <<tables, hm, mu, ref, cands, ops, filled, won, touched, resize>>

\* The steps of the hmap methods, whoever called them.
LoadSteps(t) == FindFirst(t) \/ FindNext(t) \/ LoadValue(t)

UpdateSteps(t) ==
    \/ StoreBegin(t) \/ StoreValueStep(t) \/ StoreNextStep(t) \/ StoreFirstStep(t)
    \/ DeleteStep(t)

RangeSteps(t) == RangeFirst(t) \/ RangeValue(t) \/ RangeNext(t)

HStep(t) == LoadSteps(t) \/ UpdateSteps(t) \/ RangeSteps(t)

\* Go's garbage collector: a table that is neither the current one nor held
\* by a goroutine cannot be reached any more.
Collect(tabs, cur, locs) ==
    [i \in DOMAIN tabs |->
        IF i = cur \/ (\E u \in Threads : locs[u].h = i) THEN tabs[i] ELSE NewMap(0)]

\* The call has returned; the goroutine is ready for its next call.
Return(t) ==
    /\ pc[t] = "ret"
    /\ pc' = [pc EXCEPT ![t] = "idle"]
    /\ loc' = [loc EXCEPT ![t] = NoCall]
    /\ cands' = [cands EXCEPT ![t] = {}]
    /\ tables' = Collect(tables, hm, loc')
    /\ UNCHANGED <<hm, mu, ref, ops, filled, won, touched, resize>>

\* ------------------------------------------- a program using hmap directly
HCallLoad(t) ==
    /\ pc[t] = "idle"
    /\ \E k \in Keys :
         /\ loc' = [loc EXCEPT ![t] = [NoCall EXCEPT !.op = "Load", !.key = k,
                                                    !.h = hm, !.cont = "ret"]]
         /\ cands' = [cands EXCEPT ![t] = {ref[k]}]
    /\ pc' = [pc EXCEPT ![t] = "find_first"]
    /\ UNCHANGED <<tables, hm, mu, ref, ops, filled, won, touched, resize>>

HCallStore(t) ==
    /\ pc[t] = "idle"
    /\ \E k \in Keys, v \in Values :
         loc' = [loc EXCEPT ![t] = [NoCall EXCEPT !.op = "Store", !.key = k, !.val = v,
                                                  !.h = hm, !.cont = "ret"]]
    /\ pc' = [pc EXCEPT ![t] = "h_store"]
    /\ UNCHANGED <<tables, hm, mu, ref, cands, ops, filled, won, touched, resize>>

HCallDelete(t) ==
    /\ pc[t] = "idle"
    /\ \E k \in Keys :
         loc' = [loc EXCEPT ![t] = [NoCall EXCEPT !.op = "Delete", !.key = k,
                                                  !.h = hm, !.cont = "ret"]]
    /\ pc' = [pc EXCEPT ![t] = "h_delete"]
    /\ UNCHANGED <<tables, hm, mu, ref, cands, ops, filled, won, touched, resize>>

\* The visitor handed to Range is an input: one that always answers true
\* (go on), or one that always answers false (stop).
HCallRange(t) ==
    /\ pc[t] = "idle"
    /\ \E go \in BOOLEAN :
         loc' = [loc EXCEPT ![t] = [NoCall EXCEPT !.op = "Range", !.h = hm, !.bi = 1,
                                                  !.go = go, !.cont = "ret"]]
    /\ pc' = [pc EXCEPT ![t] = "rg_first"]
    /\ UNCHANGED <<tables, hm, mu, ref, cands, ops, filled, won, touched, resize>>

HInit ==
    /\ tables = <<NewMap(Capacity)>>
    /\ hm = 1
    /\ mu = 0
    /\ pc = [t \in Threads |-> "idle"]
    /\ loc = [t \in Threads |-> NoCall]
    /\ ref = [k \in Keys |-> nil]
    /\ cands = [t \in Threads |-> {}]
    /\ ops = 0
    /\ filled = 0
    /\ won = <<>>
    /\ touched = {}
    /\ resize = possible

\* hmap asks its user to keep update operations apart: the goroutines of W
\* update (W holds one goroutine), those of R read.
HNext(W, R) ==
    \/ \E t \in W : HCallStore(t) \/ HCallDelete(t)
    \/ \E t \in R : HCallLoad(t) \/ HCallRange(t)
    \/ \E t \in W \cup R : HStep(t) \/ Return(t)

\* One goroutine: every call runs to its end before the next one starts.
SeqNext == HNext({1}, {1})
SpecSeq == HInit /\ [][SeqNext]_vars

\* One writer (goroutine 1) and one reader (goroutine 2).
HmapNext == HNext({1}, {2})
SpecHmap == HInit /\ [][HmapNext]_vars

\* ================================================= hmap.go, second version
\* The Map of src/hmap.go:166-329: buckets start empty, chains end at a nil
\* next pointer, Store links a new entry behind the last entry of the chain
\* and Delete takes the entry out of the chain.

NewMapNil(capacity) ==
    [ first |-> [i \in 1..capacity |-> nil],
      ent   |-> <<>>,
      numOfEntries |-> 0 ]

\* for e.key != key && e.loadNext() != nil { e = e.loadNext() }
RECURSIVE WalkToTail(_, _, _)
WalkToTail(T, e, key) ==
    IF T.ent[e].key # key /\ T.ent[e].next # nil
    THEN WalkToTail(T, T.ent[e].next, key)
    ELSE e

\* findEntry: the entry with the key and true, or the last entry of the
\* chain (nil if the bucket is empty) and false.
findEntryTail(T, key) ==
    LET b == BucketOf(T, key) IN
    IF T.first[b] = nil THEN [b |-> b, e |-> nil, ok |-> FALSE]
    ELSE LET e == WalkToTail(T, T.first[b], key) IN
         [b |-> b, e |-> e, ok |-> T.ent[e].key = key]

\* Delete's walk from the head to the entry in front of e:
\* for curr != e { prev = curr; curr = curr.loadNext() }
RECURSIVE prevOf(_, _, _)
prevOf(T, prev, e) ==
    IF T.ent[prev].next = e THEN prev ELSE prevOf(T, T.ent[prev].next, e)

NilCallStore(t) ==
    /\ pc[t] = "idle" /\ ops < HmapOps
    /\ \E k \in Keys, v \in Values :
         loc' = [loc EXCEPT ![t] = [NoCall EXCEPT !.op = "Store", !.key = k, !.val = v,
                                                  !.h = hm, !.cont = "ret"]]
    /\ pc' = [pc EXCEPT ![t] = "n_store"]
    /\ ops' = ops + 1
    /\ UNCHANGED <<tables, hm, mu, ref, cands, filled, won, touched, resize>>

NilCallDelete(t) ==
    /\ pc[t] = "idle" /\ ops < HmapOps
    /\ \E k \in Keys :
         loc' = [loc EXCEPT ![t] = [NoCall EXCEPT !.op = "Delete", !.key = k,
                                                  !.h = hm, !.cont = "ret"]]
    /\ pc' = [pc EXCEPT ![t] = "n_delete"]
    /\ ops' = ops + 1
    /\ UNCHANGED <<tables, hm, mu, ref, cands, filled, won, touched, resize>>

\* Store: findEntry, then e.storeValue(value), or m.numOfEntries++ and
\* newEntry := &entry{key: key}.
NilStoreBegin(t) ==
    /\ pc[t] = "n_store"
    /\ LET f == findEntryTail(Tab(t), loc[t].key) IN
       IF f.ok THEN
           /\ SetTab(t, [Tab(t) EXCEPT !.ent[f.e].value = loc[t].val])
           /\ NoteStore(loc[t].key, loc[t].val)
           /\ pc' = [pc EXCEPT ![t] = "ret"]
           /\ loc' = [loc EXCEPT ![t].b = f.b, ![t].e = f.e,
                                 ![t].old = Tab(t).ent[f.e].value]
       ELSE
           /\ SetTab(t, [Tab(t) EXCEPT
                  !.numOfEntries = Inc(@),
                  !.ent = Append(@, [key |-> loc[t].key, value |-> nil, next |-> nil])])
           /\ UNCHANGED <<ref, cands>>
           /\ pc' = [pc EXCEPT ![t] = "n_val"]
           /\ loc' = [loc EXCEPT ![t].b = f.b, ![t].e = f.e]
    /\ UNCHANGED <<hm, mu, ops, filled, won, touched, resize>>

\* newEntry.storeValue(value); the new entry is the one allocated last.
NilStoreValue(t) ==
    /\ pc[t] = "n_val"
    /\ SetTab(t, [Tab(t) EXCEPT !.ent[Len(Tab(t).ent)].value = loc[t].val])
    /\ pc' = [pc EXCEPT ![t] = "n_link"]
    /\ UNCHANGED <<hm, mu, loc, ref, cands, ops, filled, won, touched, resize>>

\* if e == nil { b.storeFirst(newEntry) } else { e.storeNext(newEntry) }
NilStoreLink(t) ==
    /\ pc[t] = "n_link"
    /\ IF loc[t].e = nil
       THEN SetTab(t, [Tab(t) EXCEPT !.first[loc[t].b] = Len(Tab(t).ent)])
       ELSE SetTab(t, [Tab(t) EXCEPT !.ent[loc[t].e].next = Len(Tab(t).ent)])
    /\ NoteStore(loc[t].key, loc[t].val)
    /\ pc' = [pc EXCEPT ![t] = "ret"]
    /\ UNCHANGED <<hm, mu, loc, ops, filled, won, touched, resize>>

\* Delete: findEntry, then m.numOfEntries-- and e.storeValue(deleted).
NilDeleteBegin(t) ==
    /\ pc[t] = "n_delete"
    /\ LET f == findEntryTail(Tab(t), loc[t].key) IN
       IF f.ok THEN
           /\ SetTab(t, [Tab(t) EXCEPT !.numOfEntries = Dec(@),
                                       !.ent[f.e].value = deleted])
           /\ NoteDelete(loc[t].key)
           /\ pc' = [pc EXCEPT ![t] = "n_unlink"]
           /\ loc' = [loc EXCEPT ![t].b = f.b, ![t].e = f.e,
                                 ![t].old = Tab(t).ent[f.e].value]
       ELSE
           /\ pc' = [pc EXCEPT ![t] = "ret"]
           /\ loc' = [loc EXCEPT ![t].b = f.b, ![t].e = f.e]
           /\ UNCHANGED <<tables, ref, cands>>
    /\ UNCHANGED <<hm, mu, ops, filled, won, touched, resize>>

\* b.storeFirst(e.loadNext()) if e is the head, prev.storeNext(e.loadNext())
\* otherwise.
NilDeleteUnlink(t) ==
    /\ pc[t] = "n_unlink"
    /\ LET T == Tab(t)
           e == loc[t].e
       IN  IF T.first[loc[t].b] = e
           THEN SetTab(t, [T EXCEPT !.first[loc[t].b] = T.ent[e].next])
           ELSE SetTab(t, [T EXCEPT !.ent[prevOf(T, T.first[loc[t].b], e)].next = T.ent[e].next])
    /\ pc' = [pc EXCEPT ![t] = "ret"]
    /\ UNCHANGED <<hm, mu, loc, ref, cands, ops, filled, won, touched, resize>>

NilInit ==
    /\ tables = <<NewMapNil(Capacity)>>
    /\ hm = 1
    /\ mu = 0
    /\ pc = [t \in Threads |-> "idle"]
    /\ loc = [t \in Threads |-> NoCall]
    /\ ref = [k \in Keys |-> nil]
    /\ cands = [t \in Threads |-> {}]
    /\ ops = 0
    /\ filled = 0
    /\ won = <<>>
    /\ touched = {}
    /\ resize = possible

\* Goroutine 1 calls Store and Delete, one call after the other.
NilReturn(t) ==
    /\ pc[t] = "ret"
    /\ pc' = [pc EXCEPT ![t] = "idle"]
    /\ loc' = [loc EXCEPT ![t] = NoCall]
    /\ UNCHANGED <<tables, hm, mu, ref, cands, ops, filled, won, touched, resize>>

NilNext ==
    \E t \in {1} :
        \/ NilCallStore(t) \/ NilCallDelete(t)
        \/ NilStoreBegin(t) \/ NilStoreValue(t) \/ NilStoreLink(t)
        \/ NilDeleteBegin(t) \/ NilDeleteUnlink(t)
        \/ NilReturn(t)

SpecHmapNil == NilInit /\ [][NilNext]_vars

\* =================================================================== concmap
\* The resizable map of package concmap: an atomic.Value holding the current
\* *hmap.Map and a mutex that keeps the updates apart.

max(x, y) == IF x < y THEN y ELSE x

\* resizeMap's decision.  loadFactor is float32(entries)/float32(buckets);
\* for these sizes loadFactor > c is entries > c*buckets, exactly.
resizeWanted(T) ==
    LET buckets == Len(T.first)
        entries == T.numOfEntries
        del     == T.numOfDeleted
        tooSmallBuckets == entries > upperBound * buckets
        tooLargeBuckets == entries < lowerBound * buckets /\ entries > minMapSize
        tooManyDeleted  == entries < 2 * del
    IN  /\ ~(entries < minMapSize)
        /\ (tooSmallBuckets \/ tooLargeBuckets \/ tooManyDeleted)

newCapacity(T) == max((T.numOfEntries - T.numOfDeleted) \div defaultLF, iniMapCap)

\* The table resizeMap stores into m.hm: hmap.NewMap(newCapacity, hasher).
resizeMapTable(T) == NewMap(newCapacity(T))

\* The keys the goroutines use: the oldest key of the map, and a new one that
\* hashes to the same bucket.
CKeys == {1, Prefill + 1}

\* The goroutines run once the first Prefill keys are in the map.
Started == filled = Prefill

\* Load: h := m.hm.Load(), then h.Load(key).
CLoad(t) ==
    /\ Started
    /\ pc[t] = "idle"
    /\ \E k \in CKeys :
         /\ loc' = [loc EXCEPT ![t] = [NoCall EXCEPT !.op = "Load", !.key = k,
                                                    !.h = hm, !.cont = "ret"]]
         /\ cands' = [cands EXCEPT ![t] = {ref[k]}]
    /\ pc' = [pc EXCEPT ![t] = "find_first"]
    /\ UNCHANGED <<tables, hm, mu, ref, ops, filled, won, touched, resize>>

\* Range: h := m.hm.Load(), then h.Range(f).
CRange(t) ==
    /\ Started
    /\ pc[t] = "idle"
    /\ \E go \in BOOLEAN :
         loc' = [loc EXCEPT ![t] = [NoCall EXCEPT !.op = "Range", !.h = hm, !.bi = 1,
                                                  !.go = go, !.cont = "ret"]]
    /\ pc' = [pc EXCEPT ![t] = "rg_first"]
    /\ cands' = [cands EXCEPT ![t] = RefStates]
    /\ UNCHANGED <<tables, hm, mu, ref, ops, filled, won, touched, resize>>

\* Store: m.mu.Lock(); h := m.hm.Load(); then h.Store(key, value).
CStore(t) ==
    /\ Started
    /\ pc[t] = "idle" /\ ops < MaxOps
    /\ mu = 0
    /\ mu' = t
    /\ \E k \in CKeys :
         /\ loc' = [loc EXCEPT ![t] = [NoCall EXCEPT !.op = "Store", !.key = k, !.val = t,
                                                    !.h = hm, !.cont = "c_resize"]]
         /\ touched' = touched \cup {k}
    /\ pc' = [pc EXCEPT ![t] = "h_store"]
    /\ ops' = ops + 1
    /\ UNCHANGED <<tables, hm, ref, cands, filled, won, resize>>

\* Delete: m.mu.Lock(); h := m.hm.Load(); then h.Delete(key).
CDelete(t) ==
    /\ Started
    /\ pc[t] = "idle" /\ ops < MaxOps
    /\ mu = 0
    /\ mu' = t
    /\ \E k \in CKeys :
         /\ loc' = [loc EXCEPT ![t] = [NoCall EXCEPT !.op = "Delete", !.key = k,
                                                    !.h = hm, !.cont = "c_resize"]]
         /\ touched' = touched \cup {k}
    /\ pc' = [pc EXCEPT ![t] = "h_delete"]
    /\ ops' = ops + 1
    /\ UNCHANGED <<tables, hm, ref, cands, filled, won, resize>>

\* resizeMap(m), called by Store and Delete with the mutex held.
CResize(t) ==
    /\ pc[t] = "c_resize"
    /\ IF resizeWanted(tables[hm]) THEN
           /\ hm' = Len(tables) + 1
           /\ tables' = Collect(Append(tables, resizeMapTable(tables[hm])), hm', loc)
       ELSE UNCHANGED <<tables, hm>>
    /\ pc' = [pc EXCEPT ![t] = "c_unlock"]
    /\ UNCHANGED <<mu, loc, ref, cands, ops, filled, won, touched, resize>>

\* m.mu.Unlock(), and the call returns.
CUnlock(t) ==
    /\ pc[t] = "c_unlock"
    /\ mu = t
    /\ mu' = 0
    /\ pc' = [pc EXCEPT ![t] = "ret"]
    /\ UNCHANGED <<tables, hm, loc, ref, cands, ops, filled, won, touched, resize>>

\* LoadOrStore, the first two lines: h := m.hm.Load(); h.Load(key), without
\* the mutex.
CLoadOrStore(t) ==
    /\ Started
    /\ pc[t] = "idle" /\ ops < MaxOps
    /\ \E k \in CKeys :
         /\ loc' = [loc EXCEPT ![t] = [NoCall EXCEPT !.op = "LoadOrStore", !.key = k,
                                                    !.val = t, !.h = hm, !.cont = "los_chk",
                                                    !.was = hLoad(tables[hm], k)[1]]]
         /\ cands' = [cands EXCEPT ![t] = {ref[k]}]
    /\ pc' = [pc EXCEPT ![t] = "find_first"]
    /\ ops' = ops + 1
    /\ UNCHANGED <<tables, hm, mu, ref, filled, won, touched, resize>>

\* if loaded { return }
LosCheck(t) ==
    /\ pc[t] = "los_chk"
    /\ pc' = [pc EXCEPT ![t] = IF loc[t].ok THEN "ret" ELSE "los_lock"]
    /\ UNCHANGED <<tables, hm, mu, loc, ref, cands, ops, filled, won, touched, resize>>

\* A slow path that stores its value whatever the lookup under the mutex found.
LosLockAlwaysStores(t) ==
    /\ pc[t] = "los_lock"
    /\ mu = 0
    /\ mu' = t
    /\ loc' = [loc EXCEPT ![t].h = hm, ![t].ret = loc[t].val, ![t].ok = FALSE,
                          ![t].slow = TRUE, ![t].lin = ref[loc[t].key],
                          ![t].cont = "c_unlock"]
    /\ pc' = [pc EXCEPT ![t] = "h_store"]
    /\ won' = Append(won, <<loc[t].key, loc[t].val>>)
    /\ tables' = Collect(tables, hm, loc')
    /\ UNCHANGED <<hm, ref, cands, ops, filled, touched, resize>>

\* A slow path that goes on to resizeMap after its Store.
LosLockThenResizes(t) ==
    /\ pc[t] = "los_lock"
    /\ mu = 0
    /\ mu' = t
    /\ LET r == hLoad(tables[hm], loc[t].key) IN
       IF r[2] THEN
           /\ loc' = [loc EXCEPT ![t].h = hm, ![t].ret = r[1], ![t].ok = TRUE,
                                 ![t].slow = TRUE, ![t].lin = ref[loc[t].key]]
           /\ pc' = [pc EXCEPT ![t] = "c_unlock"]
           /\ UNCHANGED won
       ELSE
           /\ loc' = [loc EXCEPT ![t].h = hm, ![t].ret = loc[t].val, ![t].ok = FALSE,
                                 ![t].slow = TRUE, ![t].lin = ref[loc[t].key],
                                 ![t].cont = "c_resize"]
           /\ pc' = [pc EXCEPT ![t] = "h_store"]
           /\ won' = Append(won, <<loc[t].key, loc[t].val>>)
    /\ tables' = Collect(tables, hm, loc')
    /\ UNCHANGED <<hm, ref, cands, ops, filled, touched, resize>>

\* m.mu.Lock(); h = m.hm.Load(); actual, loaded = h.Load(key): with the mutex
\* held nobody writes to h, and the second Load is one step.  When the key
\* is still absent, h.Store(key, value) follows and (value, false) is returned.
LosLock(t) ==
    /\ pc[t] = "los_lock"
    /\ mu = 0
    /\ mu' = t
    /\ LET r == hLoad(tables[hm], loc[t].key) IN
       IF r[2] THEN
           /\ loc' = [loc EXCEPT ![t].h = hm, ![t].ret = r[1], ![t].ok = TRUE,
                                 ![t].slow = TRUE, ![t].lin = ref[loc[t].key]]
           /\ pc' = [pc EXCEPT ![t] = "c_unlock"]
           /\ UNCHANGED won
       ELSE
           /\ loc' = [loc EXCEPT ![t].h = hm, ![t].ret = loc[t].val, ![t].ok = FALSE,
                                 ![t].slow = TRUE, ![t].lin = ref[loc[t].key],
                                 ![t].cont = "c_unlock"]
           /\ pc' = [pc EXCEPT ![t] = "h_store"]
           /\ won' = Append(won, <<loc[t].key, loc[t].val>>)
    /\ tables' = Collect(tables, hm, loc')
    /\ UNCHANGED <<hm, ref, cands, ops, filled, touched, resize>>

\* The table after the whole of a Store call of the resizable map.
cStore(T, key, value) ==
    LET T1 == hStore(T, key, value) IN
    IF resizeWanted(T1) THEN resizeMapTable(T1) ELSE T1

\* NewMap(): the state after construction.
CInit ==
    /\ tables = <<NewMap(iniMapCap)>>
    /\ hm = 1
    /\ mu = 0
    /\ pc = [t \in Threads |-> "idle"]
    /\ loc = [t \in Threads |-> NoCall]
    /\ ref = [k \in 1..(Prefill + 1) |-> nil]
    /\ cands = [t \in Threads |-> {}]
    /\ ops = 0
    /\ filled = 0
    /\ won = <<>>
    /\ touched = {}
    /\ resize = possible

\* The goroutine that made the map stores the keys 1..Prefill, one whole
\* Store call after the other, and then starts the other goroutines.
Setup ==
    /\ filled < Prefill
    /\ filled' = filled + 1
    /\ tables' = <<cStore(tables[1], filled + 1, 1)>>
    /\ ref' = [ref EXCEPT ![filled + 1] = 1]
    /\ UNCHANGED <<hm, mu, pc, loc, cands, ops, won, touched, resize>>

\* Goroutines 1 and 2 update the map, goroutine 3 looks keys up.
ConcNext ==
    \/ Setup
    \/ \E t \in {1, 2} : CStore(t) \/ CDelete(t) \/ CLoadOrStore(t)
    \/ \E t \in {1, 2} : LosCheck(t) \/ LosLock(t) \/ CResize(t) \/ CUnlock(t)
    \/ \E t \in {3} : CLoad(t)
    \/ \E t \in Threads : LoadSteps(t) \/ UpdateSteps(t) \/ Return(t)

SpecConc == CInit /\ [][ConcNext]_vars

\* Goroutine 2 updates the map while goroutine 3 ranges over it.
RangeNextC ==
    \/ Setup
    \/ \E t \in {2} : CStore(t) \/ CDelete(t) \/ CResize(t) \/ CUnlock(t) \/ UpdateSteps(t)
    \/ \E t \in {3} : CRange(t) \/ RangeSteps(t)
    \/ \E t \in {2, 3} : Return(t)

SpecRange == CInit /\ [][RangeNextC]_vars

\* ------------------------------------------- the Map of cmap_benchmark_test.go
\* newMap.Store(k, v) for the pairs lo..hi of those Range hands over, in
\* order: the first half, then the second half.
RECURSIVE StoreSome(_, _, _, _)
StoreSome(T, pairs, lo, hi) ==
    IF lo > hi THEN T
    ELSE IF lo = hi THEN hStore(T, pairs[lo][1], pairs[lo][2])
    ELSE LET mid == (lo + hi) \div 2
             T1  == StoreSome(T, pairs, lo, mid)
         IN  \* (the test makes the evaluator build T1 before it goes on)
             IF Len(T1.ent) > 0 THEN StoreSome(T1, pairs, mid + 1, hi) ELSE T1

\* newMap.Store(k, v) for every pair Range hands over, in order.
StoreAll(T, pairs, i) == StoreSome(T, pairs, i, Len(pairs))

\* resizeIfNeeded past the flag test: the table that is current afterwards.
resizeIfNeededTable(T) ==
    IF T.numOfEntries < BenchMinMapSize THEN T
    ELSE IF \/ T.numOfEntries > minLoadFactor * Len(T.first)
            \/ T.largestBucket > maxBucketSize
         THEN StoreAll(NewMap(2 * Len(T.first) - 1), hRange(T), 1)
         ELSE T

BKeys == {1, BenchFill + 1}

BStarted == filled = BenchFill

\* Load: hm := m.hm.Load(), then hm.Load(key).
BLoad(t) ==
    /\ BStarted
    /\ pc[t] = "idle"
    /\ \E k \in BKeys :
         /\ loc' = [loc EXCEPT ![t] = [NoCall EXCEPT !.op = "Load", !.key = k,
                                                    !.h = hm, !.cont = "ret"]]
         /\ cands' = [cands EXCEPT ![t] = {ref[k]}]
    /\ pc' = [pc EXCEPT ![t] = "find_first"]
    /\ UNCHANGED <<tables, hm, mu, ref, ops, filled, won, touched, resize>>

\* Store: m.mu.Lock(); hm := m.hm.Load(); then hm.Store(key, value).
BStore(t) ==
    /\ BStarted
    /\ pc[t] = "idle"
    /\ ops < MaxOps
    /\ mu = 0
    /\ mu' = t
    /\ \E k \in BKeys :
         /\ loc' = [loc EXCEPT ![t] = [NoCall EXCEPT !.op = "Store", !.key = k, !.val = t,
                                                    !.h = hm, !.cont = "b_resize"]]
         /\ touched' = touched \cup {k}
    /\ pc' = [pc EXCEPT ![t] = "h_store"]
    /\ ops' = ops + 1
    /\ UNCHANGED <<tables, hm, ref, cands, filled, won, resize>>

\* Delete: m.mu.Lock(); hm := m.hm.Load(); then hm.Delete(key).
BDelete(t) ==
    /\ BStarted
    /\ pc[t] = "idle"
    /\ ops < MaxOps
    /\ mu = 0
    /\ mu' = t
    /\ \E k \in BKeys :
         /\ loc' = [loc EXCEPT ![t] = [NoCall EXCEPT !.op = "Delete", !.key = k,
                                                    !.h = hm, !.cont = "b_resize"]]
         /\ touched' = touched \cup {k}
    /\ pc' = [pc EXCEPT ![t] = "h_delete"]
    /\ ops' = ops + 1
    /\ UNCHANGED <<tables, hm, ref, cands, filled, won, resize>>

\* m.resizeIfNeeded(), inside the critical section: nothing while a Range has
\* set the flag, else the copy and m.hm.Store(newMap).
BResize(t) ==
    /\ pc[t] = "b_resize"
    /\ IF resize # impossible /\ resizeIfNeededTable(tables[hm]) # tables[hm] THEN
           /\ hm' = Len(tables) + 1
           /\ tables' = Collect(Append(tables, resizeIfNeededTable(tables[hm])), hm', loc)
       ELSE UNCHANGED <<tables, hm>>
    /\ pc' = [pc EXCEPT ![t] = "b_unlock"]
    /\ UNCHANGED <<mu, loc, ref, cands, ops, filled, won, touched, resize>>

\* m.mu.Unlock(), and the call returns.
BUnlock(t) ==
    /\ pc[t] = "b_unlock"
    /\ mu = t
    /\ mu' = 0
    /\ pc' = [pc EXCEPT ![t] = "ret"]
    /\ UNCHANGED <<tables, hm, loc, ref, cands, ops, filled, won, touched, resize>>

\* Range is called.
BRange(t) ==
    /\ BStarted
    /\ pc[t] = "idle"
    /\ \E go \in BOOLEAN :
         loc' = [loc EXCEPT ![t] = [NoCall EXCEPT !.op = "Range", !.go = go,
                                                  !.cont = "b_rg_done"]]
    /\ pc' = [pc EXCEPT ![t] = "b_rg_lock"]
    /\ cands' = [cands EXCEPT ![t] = RefStates]
    /\ UNCHANGED <<tables, hm, mu, ref, ops, filled, won, touched, resize>>

\* m.mu.Lock()
BRangeLock(t) ==
    /\ pc[t] = "b_rg_lock"
    /\ mu = 0
    /\ mu' = t
    /\ pc' = [pc EXCEPT ![t] = "b_rg_flag"]
    /\ UNCHANGED <<tables, hm, loc, ref, cands, ops, filled, won, touched, resize>>

\* atomic.StoreUint32(&m.resize, impossible); m.mu.Unlock()
BRangeFlag(t) ==
    /\ pc[t] = "b_rg_flag"
    /\ mu = t
    /\ resize' = impossible
    /\ mu' = 0
    /\ pc' = [pc EXCEPT ![t] = "b_rg_load"]
    /\ UNCHANGED <<tables, hm, loc, ref, cands, ops, filled, won, touched>>

\* hm := m.hm.Load(), and hm.Range(f) begins.
BRangeLoad(t) ==
    /\ pc[t] = "b_rg_load"
    /\ loc' = [loc EXCEPT ![t].h = hm, ![t].bi = 1]
    /\ pc' = [pc EXCEPT ![t] = "rg_first"]
    /\ UNCHANGED <<tables, hm, mu, ref, cands, ops, filled, won, touched, resize>>

\* atomic.StoreUint32(&m.resize, possible), and the call returns.
BRangeDone(t) ==
    /\ pc[t] = "b_rg_done"
    /\ resize' = possible
    /\ pc' = [pc EXCEPT ![t] = "ret"]
    /\ UNCHANGED <<tables, hm, mu, loc, ref, cands, ops, filled, won, touched>>

\* The table after the whole of a Store call, resizeIfNeeded included.
bStore(T, key, value) == resizeIfNeededTable(hStore(T, key, value))

\* NewMap(hasher): the state after construction.
BInit ==
    /\ tables = <<NewMap(iniCapacity)>>
    /\ hm = 1
    /\ mu = 0
    /\ pc = [t \in Threads |-> "idle"]
    /\ loc = [t \in Threads |-> NoCall]
    /\ ref = [k \in 1..(BenchFill + 1) |-> nil]
    /\ cands = [t \in Threads |-> {}]
    /\ ops = 0
    /\ filled = 0
    /\ won = <<>>
    /\ touched = {}
    /\ resize = possible

\* The benchmark's setup stores its keys one whole Store call after the other
\* before the goroutines run.
BSetup ==
    /\ filled < BenchFill
    /\ filled' = filled + 1
    /\ tables' = <<bStore(tables[1], filled + 1, 1)>>
    /\ ref' = [ref EXCEPT ![filled + 1] = 1]
    /\ UNCHANGED <<hm, mu, pc, loc, cands, ops, won, touched, resize>>

\* Goroutine 1 updates the map, goroutine 3 looks keys up and ranges.
BenchNext ==
    \/ BSetup
    \/ \E t \in {1} : BStore(t) \/ BDelete(t) \/ BResize(t) \/ BUnlock(t) \/ UpdateSteps(t)
    \/ \E t \in {3} : BLoad(t) \/ BRange(t) \/ LoadSteps(t) \/ RangeSteps(t)
    \/ \E t \in {3} : BRangeLock(t) \/ BRangeFlag(t) \/ BRangeLoad(t) \/ BRangeDone(t)
    \/ \E t \in {1, 3} : Return(t)

SpecBench == BInit /\ [][BenchNext]_vars

\* Goroutine 1 stores the new key once; goroutines 2 and 3 range, each with a
\* visitor that always answers true.
TwoRangesNext ==
    \/ BSetup
    \/ \E t \in {1} : BStore(t) /\ ops = 0 /\ loc'[t].key = BenchFill + 1
    \/ \E t \in {1} : StoreBegin(t) \/ StoreValueStep(t) \/ StoreNextStep(t) \/ StoreFirstStep(t)
    \/ \E t \in {1} : BResize(t) \/ BUnlock(t)
    \/ \E t \in {2, 3} : BRange(t) /\ loc'[t].go
    \/ \E t \in {2, 3} : BRangeLock(t) \/ BRangeFlag(t) \/ BRangeLoad(t) \/ BRangeDone(t)
    \/ \E t \in {2, 3} : RangeSteps(t)
    \/ \E t \in Threads : Return(t)

SpecTwoRanges == BInit /\ [][TwoRangesNext]_vars

\* ====================================================================== cmap
\* The Map of package cmap: an atomic.Value holding the current *hmap.Map and
\* nothing else.  Store and Delete take no lock; the package asks its callers
\* to keep the update operations apart.

\* resizeIfNeeded's decision (shouldResize, after the minMapSize test).
shouldResize(T) ==
    LET buckets == Len(T.first)
        entries == T.numOfEntries
        del     == T.numOfDeleted
        tooSmallBuckets == entries > upperBound * buckets
        tooLargeBuckets == entries < lowerBound * buckets
        tooManyDeleted  == entries < 2 * del
    IN  /\ ~(entries < minMapSize)
        /\ (tooSmallBuckets \/ tooLargeBuckets \/ tooManyDeleted)

\* resizeIfNeeded: the table that is current afterwards.  The copy hands
\* every pair of oldMap.Range to newMap.Store; its test v != deleted compares
\* the value with the uint32 tombstone count, and the values stored here are
\* not uint32, so it lets every pair through.
cmapResizeIfNeeded(T) ==
    IF shouldResize(T)
    THEN StoreAll(NewMap(newCapacity(T)), hRange(T), 1)
    ELSE T

\* Store: h := m.hm.Load(), then h.Store(key, value).
MStore(t) ==
    /\ filled = Prefill
    /\ pc[t] = "idle" /\ ops < CmapOps
    /\ \E k \in CKeys :
         /\ loc' = [loc EXCEPT ![t] = [NoCall EXCEPT !.op = "Store", !.key = k, !.val = t,
                                                    !.h = hm, !.cont = "m_resize"]]
         /\ touched' = touched \cup {k}
    /\ pc' = [pc EXCEPT ![t] = "h_store"]
    /\ ops' = ops + 1
    /\ UNCHANGED <<tables, hm, mu, ref, cands, filled, won, resize>>

\* Delete: h := m.hm.Load(), then h.Delete(key).
MDelete(t) ==
    /\ filled = Prefill
    /\ pc[t] = "idle" /\ ops < CmapOps
    /\ \E k \in CKeys :
         /\ loc' = [loc EXCEPT ![t] = [NoCall EXCEPT !.op = "Delete", !.key = k,
                                                    !.h = hm, !.cont = "m_resize"]]
         /\ touched' = touched \cup {k}
    /\ pc' = [pc EXCEPT ![t] = "h_delete"]
    /\ ops' = ops + 1
    /\ UNCHANGED <<tables, hm, mu, ref, cands, filled, won, resize>>

\* resizeIfNeeded(m) on the table that is current now, and the call returns.
MResize(t) ==
    /\ pc[t] = "m_resize"
    /\ IF shouldResize(tables[hm]) THEN
           /\ hm' = Len(tables) + 1
           /\ tables' = Collect(Append(tables, cmapResizeIfNeeded(tables[hm])), hm', loc)
       ELSE UNCHANGED <<tables, hm>>
    /\ pc' = [pc EXCEPT ![t] = "ret"]
    /\ UNCHANGED <<mu, loc, ref, cands, ops, filled, won, touched, resize>>

\* A whole Store by the goroutine that made the map.
mStore(T, key, value) == cmapResizeIfNeeded(hStore(T, key, value))

MSetup ==
    /\ filled < Prefill
    /\ filled' = filled + 1
    /\ tables' = <<mStore(tables[1], filled + 1, 1)>>
    /\ ref' = [ref EXCEPT ![filled + 1] = 1]
    /\ UNCHANGED <<hm, mu, pc, loc, cands, ops, won, touched, resize>>

\* Goroutines 1 and 2 update the map; nothing in the package keeps them apart.
CmapNext ==
    \/ MSetup
    \/ \E t \in {1, 2} : MStore(t) \/ MDelete(t) \/ MResize(t)
    \/ \E t \in {1, 2} : UpdateSteps(t) \/ Return(t)

SpecCmap == CInit /\ [][CmapNext]_vars

\* --------------------------------------------------- filling and emptying
\* One goroutine stores the keys 1..GrowKeys and then deletes them, one whole
\* call per step, on the Map of package m.  Every table the map has had stays
\* in tables, the current one last.
Resized(m, T) ==
    IF m = "bench" THEN resizeIfNeededTable(T) ELSE cmapResizeIfNeeded(T)

GrowWrite(m, T) ==
    IF Resized(m, T) # T
    THEN /\ tables' = Append(tables, Resized(m, T))
         /\ hm' = Len(tables) + 1
    ELSE /\ tables' = [tables EXCEPT ![hm] = T]
         /\ hm' = hm

GrowStore(m) ==
    /\ filled < GrowKeys
    /\ filled' = filled + 1
    /\ GrowWrite(m, hStore(tables[hm], filled + 1, 1))
    /\ ref' = [ref EXCEPT ![filled + 1] = 1]
    /\ UNCHANGED <<mu, pc, loc, cands, ops, won, touched, resize>>

GrowDelete(m) ==
    /\ filled = GrowKeys /\ ops < GrowKeys
    /\ ops' = ops + 1
    /\ GrowWrite(m, hDelete(tables[hm], ops + 1))
    /\ ref' = [ref EXCEPT ![ops + 1] = nil]
    /\ UNCHANGED <<mu, pc, loc, cands, filled, won, touched, resize>>

GrowInit ==
    /\ tables = <<NewMap(iniCapacity)>>
    /\ hm = 1
    /\ mu = 0
    /\ pc = [t \in Threads |-> "idle"]
    /\ loc = [t \in Threads |-> NoCall]
    /\ ref = [k \in 1..GrowKeys |-> nil]
    /\ cands = [t \in Threads |-> {}]
    /\ ops = 0
    /\ filled = 0
    /\ won = <<>>
    /\ touched = {}
    /\ resize = possible

\* The Map of cmap_benchmark_test.go.
GrowBenchNext == GrowStore("bench") \/ GrowDelete("bench")
SpecGrowBench == GrowInit /\ [][GrowBenchNext]_vars

\* The Map of package cmap.
GrowCmapNext == GrowStore("cmap") \/ GrowDelete("cmap")
SpecGrowCmap == GrowInit /\ [][GrowCmapNext]_vars

\* ================================================================ properties
\* What the reference dictionary holds: its <<key, value>> pairs.
RefPairs == {<<k, ref[k]>> : k \in {x \in DOMAIN ref : ref[x] # nil}}

\* The pairs a Range call has handed to its visitor so far, and their keys.
SeenPairs(t) == {loc[t].seen[i] : i \in 1..Len(loc[t].seen)}
SeenKeys(t) == {loc[t].seen[i][1] : i \in 1..Len(loc[t].seen)}

\* The live pairs of a table: every entry that is linked and not a tombstone.
LivePairs(T) ==
    LET r == hRange(T) IN {r[i] : i \in 1..Len(r)}

\* C1: run one call after another, the inner table answers every Load as the
\* reference dictionary does (same value, same found flag), and a Range hands
\* its visitor exactly the pairs the dictionary holds: tombstoned keys absent,
\* overwritten keys with their last value.
C1_ModelEquivalence ==
    /\ (pc[1] = "ret" /\ loc[1].op = "Load") =>
           /\ loc[1].ret = ref[loc[1].key]
           /\ loc[1].ok = (ref[loc[1].key] # nil)
    /\ (pc[1] = "ret" /\ loc[1].op = "Range" /\ loc[1].go) =>
           /\ SeenPairs(1) = RefPairs
           /\ Len(loc[1].seen) = Cardinality(RefPairs)

\* A Range that returned one pair, an overwritten one, from a table that also
\* holds a tombstone.
C1_Witness ==
    /\ pc[1] = "ret" /\ loc[1].op = "Range"
    /\ Len(loc[1].seen) = 1
    /\ loc[1].seen[1][2] = 2
    /\ tables[1].numOfDeleted = 1
    /\ tables[1].numOfEntries = 2

\* C2: with one writer and a reader that never locks, a Load never reads an
\* entry whose value slot is still unset (it would dereference nil), and what
\* it returns for a present key is a value some Store put there and that the
\* key held at some moment of the call.
C2_ReaderSafety ==
    \A t \in Threads :
        /\ pc[t] # "panic"
        /\ (pc[t] = "ret" /\ loc[t].op = "Load") =>
               /\ loc[t].ok => (loc[t].ret \in Values /\ loc[t].ret \in cands[t])
               /\ ~loc[t].ok => (loc[t].ret = nil /\ nil \in cands[t])

\* A Load that found the key although the key was absent when the call began
\* and was written twice while it ran.
C2_Witness ==
    /\ pc[2] = "ret" /\ loc[2].op = "Load" /\ loc[2].ok
    /\ cands[2] = {nil, 1, 2}

\* The key no call has stored when the goroutines start.
FreshKey == Prefill + 1

\* The LoadOrStore calls on key k that stored, in the order they did.
WonOn(k) == SelectSeq(won, LAMBDA w : w[1] = k)

\* C3: a Load of a key that was stored before the call began and that stayed
\* present all through the call reports it present, however many rebuilds the
\* writers triggered meanwhile.
C3_ResizeTransparency ==
    \A t \in Threads :
        (pc[t] = "ret" /\ loc[t].op = "Load" /\ nil \notin cands[t]) => loc[t].ok

\* C4: when a rebuild publishes the new table as current, the new table holds
\* exactly the live pairs of the table it replaces.
C4_RebuildPreservesContents ==
    [][hm' # hm => LivePairs(tables'[hm']) = LivePairs(tables[hm])]_vars

\* C5: a Load of a key nobody writes between the last completed write to it and
\* the return of the Load returns what that write left: the stored value and
\* true after a Store, absent after a Delete, rebuild or no rebuild.
C5_CompletedWritesVisible ==
    \A t \in Threads :
        (pc[t] = "ret" /\ loc[t].op = "Load" /\ Cardinality(cands[t]) = 1) =>
            /\ cands[t] = {loc[t].ret}
            /\ loc[t].ok = (loc[t].ret # nil)

\* C6: on a key that starts absent and that no Store or Delete names, exactly
\* one LoadOrStore stores and returns loaded = false; every LoadOrStore on the
\* key returns the value of that call, and so does a Load that begins once the
\* key is present.
C6_SingleInitialization ==
    FreshKey \notin touched =>
        /\ Len(WonOn(FreshKey)) <= 1
        /\ \A t \in Threads :
               (pc[t] = "ret" /\ loc[t].op = "LoadOrStore" /\ loc[t].key = FreshKey) =>
                   /\ Len(WonOn(FreshKey)) >= 1
                   /\ loc[t].ret = WonOn(FreshKey)[1][2]
                   /\ ~loc[t].ok => loc[t].val = loc[t].ret
        /\ \A t \in Threads :
               (pc[t] = "ret" /\ loc[t].op = "Load" /\ loc[t].key = FreshKey
                              /\ nil \notin cands[t]) =>
                   /\ Len(WonOn(FreshKey)) >= 1
                   /\ loc[t].ok
                   /\ loc[t].ret = WonOn(FreshKey)[1][2]

\* C7: the writers' calls take effect in the order they took the mutex: with
\* every goroutine idle the map holds what the reference dictionary holds after
\* the same calls in that order, and a LoadOrStore returns what the dictionary
\* gives at its place in the order (a call that never took the mutex returns a
\* value the key held while it ran).
C7_WritersLinearizable ==
    /\ (\A t \in Threads : pc[t] = "idle") => LivePairs(tables[hm]) = RefPairs
    /\ \A t \in Threads :
           (pc[t] = "ret" /\ loc[t].op = "LoadOrStore") =>
               IF loc[t].slow
               THEN /\ loc[t].ok => (loc[t].lin # nil /\ loc[t].ret = loc[t].lin)
                    /\ ~loc[t].ok => (loc[t].lin = nil /\ loc[t].ret = loc[t].val)
               ELSE loc[t].ok /\ loc[t].ret # nil /\ loc[t].ret \in cands[t]

\* The steps a Load or a Range call takes on its own.
ReaderStep(t) ==
    \/ BRangeLock(t) \/ BRangeFlag(t) \/ BRangeLoad(t) \/ BRangeDone(t)
    \/ LoadSteps(t) \/ RangeSteps(t)

\* C8: a Load or a Range call never holds the writers' mutex and always has a
\* step of its own to take, whoever holds the mutex.
C8_ReadersNeverBlock ==
    \A t \in Threads :
        (loc[t].op \in {"Load", "Range"} /\ pc[t] \notin {"idle", "ret", "panic"}) =>
            /\ mu # t
            /\ ENABLED ReaderStep(t)

\* C9: once the visitor has returned false, Range calls it no more.
C9_RangeStopsOnFalse ==
    \A t \in Threads : ~loc[t].late

\* C10: a Range hands no key to its visitor twice, whether the writer is idle
\* or inserts, removes, re-inserts and rebuilds while the walk goes on.
C10_NoKeyTwice ==
    \A t \in Threads :
        loc[t].op = "Range" => Cardinality(SeenKeys(t)) = Len(loc[t].seen)

\* A Range that walked the whole of a table the writer replaced meanwhile, and
\* saw the key the writer inserted into it.
C10_Witness ==
    /\ pc[3] = "ret" /\ loc[3].op = "Range"
    /\ loc[3].h # hm
    /\ Len(loc[3].seen) = Prefill + 1

\* The keys a Range call found live when it began and that no Store or Delete
\* has given another state since.
StableKeys(t) ==
    {p[1] : p \in {q \in cands[t] :
                     q[2] # nil /\ \A r \in cands[t] : r[1] = q[1] => r = q}}

\* C11: a Range whose visitor never stops has, when it returns, visited every
\* key that was live when it began and was neither removed nor overwritten
\* meanwhile, whatever the writer did to other keys or to the table reference.
C11_WeakCompleteness ==
    \A t \in Threads :
        (pc[t] = "ret" /\ loc[t].op = "Range" /\ loc[t].go) =>
            StableKeys(t) \subseteq SeenKeys(t)

\* C12: every pair a Range call hands to its visitor was the mapping of its
\* key in the map at some moment since the call began, also when the table
\* the call walks has been replaced meanwhile.
C12_VisitedWasLive ==
    \A t \in Threads :
        loc[t].op = "Range" => SeenPairs(t) \subseteq cands[t]

\* A Range that returned after the table it walked was replaced, and that
\* handed over the value a Store gave key 1 during the walk.
C12_Witness ==
    /\ pc[3] = "ret" /\ loc[3].op = "Range"
    /\ loc[3].h # hm
    /\ <<1, 1>> \in cands[3]
    /\ <<1, 2>> \in SeenPairs(3)

\* The entries a table has allocated for keys (its sentinels left out), and
\* those among them that hold the tombstone.
KeyEntries(T) == {e \in 1..Len(T.ent) : T.ent[e].key # terminal}
Tombstones(T) == {e \in KeyEntries(T) : T.ent[e].value = deleted}

\* C13: a Store on a key that has an entry, live or tombstoned, reuses the
\* entry: the Load that follows returns the new value and true, the tombstone
\* counter counts exactly the tombstoned entries (so a resurrection takes back
\* what the Delete added) and the entry counter counts one entry per key ever
\* stored.
C13_OverwriteAndResurrection ==
    LET T == tables[1] IN
    /\ T.numOfDeleted = Cardinality(Tombstones(T))
    /\ T.numOfEntries = Cardinality(KeyEntries(T))
    /\ T.numOfEntries = Cardinality({T.ent[e].key : e \in KeyEntries(T)})
    /\ (pc[1] = "ret" /\ loc[1].op = "Store" /\ loc[1].old # nil) =>
           /\ T.ent[loc[1].e].key = loc[1].key
           /\ T.ent[loc[1].e].value = loc[1].val
           /\ hLoad(T, loc[1].key) = <<loc[1].val, TRUE>>

\* A Store that has just resurrected the one key of the table with a value
\* other than the one it had: no tombstone is left and one entry exists.
C13_Witness ==
    /\ pc[1] = "ret" /\ loc[1].op = "Store"
    /\ loc[1].old = deleted /\ loc[1].val = 2
    /\ tables[1].numOfDeleted = 0
    /\ tables[1].numOfEntries = 1

\* C14: a Delete of a key that has no entry, or whose entry is tombstoned
\* already, changes nothing in the table it is called on: no chain, no value
\* slot, no counter.
C14_DeleteNoOp ==
    [][\A t \in Threads :
          (pc[t] = "h_delete" /\ pc'[t] # "h_delete" /\ ~hLoad(Tab(t), loc[t].key)[2])
              => tables'[loc[t].h] = tables[loc[t].h]]_vars

\* A second Delete of a key has returned: it found the tombstone the first
\* one wrote, and the table holds that one tombstone.
C14_Witness ==
    /\ pc[1] = "ret" /\ loc[1].op = "Delete"
    /\ loc[1].old = deleted
    /\ tables[1].numOfDeleted = 1
    /\ tables[1].numOfEntries = 2

\* Goroutine t takes the step.
Steps(t) == pc'[t] # pc[t] \/ loc'[t] # loc[t]

\* C15: a LoadOrStore on a key the map holds returns the value held and true
\* and modifies nothing: no step the call takes while the current table maps
\* the key changes that table, the table reference or what the map holds.
C15_LoadOrStoreFrame ==
    [][\A t \in Threads :
          /\ (Steps(t) /\ loc[t].op = "LoadOrStore" /\ hLoad(tables[hm], loc[t].key)[2]) =>
                 /\ hm' = hm
                 /\ tables'[hm] = tables[hm]
                 /\ ref' = ref
          /\ (pc[t] = "ret" /\ loc[t].op = "LoadOrStore"
                /\ loc[t].was # nil /\ cands[t] = {loc[t].was}) =>
                 /\ loc[t].ok
                 /\ loc[t].ret = loc[t].was]_vars

\* LoadOrStore(1, 2) has returned (1, true): key 1 was mapped to 1.
C15_Witness ==
    /\ pc[2] = "ret" /\ loc[2].op = "LoadOrStore"
    /\ loc[2].key = 1 /\ loc[2].val = 2
    /\ loc[2].was = 1
    /\ loc[2].ok /\ loc[2].ret = 1

\* The rebuild condition on a table's statistics: E entries (tombstones
\* included), D tombstones, B buckets.
RebuildDue(T) ==
    LET E == T.numOfEntries
        D == T.numOfDeleted
        B == Len(T.first)
    IN  /\ E >= 64
        /\ (E > 6 * B \/ E < 2 * B \/ E < 2 * D)

\* Goroutine t leaves the resize step that ends its Store or Delete.
ResizeStep(t) ==
    pc[t] \in {"c_resize", "b_resize"} /\ pc'[t] \notin {"c_resize", "b_resize"}

\* C16: the resize step at the end of a Store or a Delete replaces the table
\* if and only if the current table has 64 entries or more and a load factor
\* above 6, a load factor below 2, or more tombstones than half its entries.
C16_ResizeDecision ==
    [][\A t \in Threads : ResizeStep(t) => ((hm' # hm) <=> RebuildDue(tables[hm]))]_vars

\* C17: a rebuild of a table with E entries and D tombstones publishes a table
\* of max((E - D) / 4, 16) buckets, and the current table never has fewer than
\* 16 buckets.
C17_RebuildCapacity ==
    [][/\ Len(tables'[hm'].first) >= 16
       /\ \A t \in Threads :
            (ResizeStep(t) /\ hm' # hm) =>
                LET E == tables[hm].numOfEntries
                    D == tables[hm].numOfDeleted
                IN  Len(tables'[hm'].first) = max((E - D) \div 4, 16)]_vars

\* The largest bucket count the map has had.
Peak == CHOOSE n \in {Len(tables[i].first) : i \in DOMAIN tables} :
            \A i \in DOMAIN tables : Len(tables[i].first) <= n

\* C18: once the keys are all stored the current table has more than 16
\* buckets, and once they are all deleted again it has fewer buckets than the
\* map had at its peak.
C18_GrowThenShrink ==
    /\ (filled = GrowKeys /\ ops = 0) => Len(tables[hm].first) > 16
    /\ (filled = GrowKeys /\ ops = GrowKeys) =>
           /\ Peak > 16
           /\ Len(tables[hm].first) < Peak

\* Goroutine t is at a step that writes into an inner table or replaces the
\* map's table reference.
InUpdate(t) ==
    pc[t] \in {"h_store", "st_val", "st_next", "st_first", "h_delete",
               "c_resize", "b_resize", "m_resize"}

\* C19: a goroutine that is about to write into an inner table or to replace
\* the map's table reference holds the writer mutex, so no two goroutines are
\* inside an update at the same time.
C19_WriterMutualExclusion ==
    /\ \A t \in Threads : InUpdate(t) => mu = t
    /\ \A t, u \in Threads : (InUpdate(t) /\ InUpdate(u)) => t = u

\* The entries a walk from e passes, the sentinel it stops at included; it
\* gives up at a nil pointer or after n entries.
RECURSIVE ChainFrom(_, _, _)
ChainFrom(T, e, n) ==
    IF e = nil \/ n = 0 THEN <<>>
    ELSE IF T.ent[e].key = terminal THEN <<e>>
    ELSE <<e>> \o ChainFrom(T, T.ent[e].next, n - 1)

\* The walk from e gets to the sentinel of bucket b (entry b of the table)
\* without meeting an entry twice.
EndsAtSentinel(T, e, b) ==
    LET c == ChainFrom(T, e, Len(T.ent)) IN
    /\ Len(c) > 0
    /\ c[Len(c)] = b
    /\ T.ent[b].key = terminal
    /\ \A i, j \in 1..Len(c) : c[i] = c[j] => i = j

ChainsOk ==
    \A i \in DOMAIN tables : \A b \in DOMAIN tables[i].first :
        EndsAtSentinel(tables[i], tables[i].first[b], b)

\* How far reader t is from the end of its call: the buckets Range has not
\* begun, whether it is about to load a bucket head, and the entries left on
\* the chain it is in.
Dist(t) == Len(ChainFrom(Tab(t), loc[t].e, Len(Tab(t).ent)))

Rank(t) ==
    CASE pc[t] = "rg_first"   -> <<Len(Tab(t).first) - loc[t].bi, 1, 0>>
      [] pc[t] = "rg_val"     -> <<Len(Tab(t).first) - loc[t].bi, 0, 2 * Dist(t) + 1>>
      [] pc[t] = "rg_next"    -> <<Len(Tab(t).first) - loc[t].bi, 0, 2 * Dist(t)>>
      [] pc[t] = "find_first" -> <<0, 1, 0>>
      [] pc[t] = "find_next"  -> <<0, 0, 2 * Dist(t) + 1>>
      [] pc[t] = "load_val"   -> <<0, 0, 0>>
      [] OTHER                -> <<0, 0, 0>>

Less(x, y) ==
    \/ x[1] < y[1]
    \/ x[1] = y[1] /\ x[2] < y[2]
    \/ x[1] = y[1] /\ x[2] = y[2] /\ x[3] < y[3]

Reading(t) == pc[t] \in {"find_first", "find_next", "load_val", "rg_first", "rg_val", "rg_next"}

\* C20: in every state, the states in the middle of a Store included, the
\* chain of every bucket is finite, has no cycle and ends at the bucket's
\* sentinel; and every step of a Load or a Range that runs beside the writer
\* returns or brings the walk strictly nearer to its end, which no step of the
\* writer moves away, so findEntry and Range terminate.
C20_ChainsEndAtSentinel ==
    /\ [](/\ ChainsOk
          /\ \A t \in Threads : (Reading(t) /\ loc[t].e # nil) => Dist(t) > 0)
    /\ [][\A t \in Threads : Reading(t) =>
            IF Steps(t)
            THEN pc'[t] = "ret" \/ (Reading(t)' /\ Less(Rank(t)', Rank(t)))
            ELSE tables'[loc[t].h] = tables[loc[t].h] \/ Rank(t)' = Rank(t)]_vars

\* The writer has allocated the entry of a second key and set its value and
\* its next pointer, but not yet linked it, while the reader's Range is at
\* the entry of the first key.
C20_Witness ==
    /\ pc[1] = "st_first" /\ pc[2] = "rg_next"
    /\ tables[1].numOfEntries = 2
    /\ tables[1].ent[loc[2].e].key # terminal
    /\ tables[1].first[loc[1].b] = loc[2].e

\* The entries with a key on the chain of bucket b, head first.
ChainKeys(T, b) ==
    LET c == ChainFrom(T, T.first[b], Len(T.ent)) IN
    [i \in 1..(Len(c) - 1) |-> T.ent[c[i]].key]

\* C21: with one writer at a time, in every state no chain holds two entries
\* of one key, and every entry is in the bucket its key hashes to.
C21_KeyUniqueness ==
    \A i \in DOMAIN tables : \A b \in DOMAIN tables[i].first :
        LET ks == ChainKeys(tables[i], b) IN
        /\ \A x, y \in DOMAIN ks : ks[x] = ks[y] => x = y
        /\ \A x \in DOMAIN ks : BucketOf(tables[i], ks[x]) = b

\* A Store has just brought a deleted key back while the chain of its bucket
\* holds the entries of two keys.
C21_Witness ==
    /\ pc[1] = "ret" /\ loc[1].op = "Store" /\ loc[1].old = deleted
    /\ Len(ChainKeys(tables[1], loc[1].b)) = 2

\* The entries a walk from the head of bucket b passes, in order.
RECURSIVE LinkedFrom(_, _, _)
LinkedFrom(T, e, n) ==
    IF e = nil \/ n = 0 THEN <<>>
    ELSE <<e>> \o LinkedFrom(T, T.ent[e].next, n - 1)

Linked(T, b) ==
    LET c == LinkedFrom(T, T.first[b], Len(T.ent)) IN {c[i] : i \in DOMAIN c}

\* Goroutine t takes a step of hmap's Delete.
DeleteSteps(t) ==
    /\ pc[t] \in {"h_delete", "n_delete", "n_unlink"}
    /\ pc'[t] # pc[t]

\* C22: an entry that can be reached from the head of its bucket can still be
\* reached from it, with the same key, after any step taken while the table
\* exists; and a step of Delete leaves every bucket head and every next
\* pointer of its table as they were.
C22_LogicalDeletionOnly ==
    [][\A i \in DOMAIN tables :
          (i \in DOMAIN tables' /\ Len(tables'[i].first) = Len(tables[i].first)) =>
             /\ \A b \in DOMAIN tables[i].first : \A e \in Linked(tables[i], b) :
                   /\ e \in Linked(tables'[i], b)
                   /\ tables'[i].ent[e].key = tables[i].ent[e].key
             /\ \A t \in Threads : (DeleteSteps(t) /\ loc[t].h = i) =>
                   /\ tables'[i].first = tables[i].first
                   /\ \A e \in DOMAIN tables[i].ent :
                         tables'[i].ent[e].next = tables[i].ent[e].next]_vars

\* Every entry of table T that some bucket head leads to.
AllLinked(T) == UNION {Linked(T, b) : b \in DOMAIN T.first}

\* C23: the step that makes a new entry reachable is one store into a bucket
\* head; the entry already has its value and points at the entry that was
\* the head, and the step changes no next pointer, so the chain behind the
\* old head is as a reader left it; no entry that can be reached has an
\* unset value, the sentinels aside.
C23_PrependPublishLast ==
    /\ [](\A i \in DOMAIN tables : \A e \in AllLinked(tables[i]) :
             tables[i].ent[e].key # terminal => tables[i].ent[e].value # nil)
    /\ [][\A t \in Threads :
            LET T == Tab(t)
                U == tables'[loc[t].h]
            IN  (pc[t] \in {"st_first", "n_link"} /\ pc'[t] # pc[t]) =>
                  \A n \in AllLinked(U) \ AllLinked(T) :
                     /\ T.ent[n].value # nil
                     /\ T.ent[n].next = T.first[loc[t].b]
                     /\ U.first[loc[t].b] = n
                     /\ \A e \in DOMAIN T.ent : U.ent[e].next = T.ent[e].next]_vars

RECURSIVE SumTo(_, _)
SumTo(f, n) == IF n = 0 THEN 0 ELSE f[n] + SumTo(f, n - 1)

\* C24: whenever no goroutine is inside a Store or a Delete, the current
\* table's entry counter is the number of entries with a key on all chains,
\* its tombstone counter the number of those that hold the tombstone, each
\* bucket's counter the number of entries with a key on its chain, and the
\* largest-bucket statistic the greatest bucket counter.
C24_StatisticsAccurate ==
    (\A t \in Threads : ~InUpdate(t)) =>
        LET T       == tables[hm]
            B       == Len(T.first)
            size    == [b \in 1..B |-> Len(ChainKeys(T, b))]
            onChain == {e \in AllLinked(T) : T.ent[e].key # terminal}
        IN  /\ T.numOfEntries = SumTo(size, B)
            /\ T.numOfDeleted = Cardinality({e \in onChain : T.ent[e].value = deleted})
            /\ \A b \in 1..B : T.bstat[b] = size[b]
            /\ \A b \in 1..B : T.largestBucket >= T.bstat[b]
            /\ \E b \in 1..B : T.largestBucket = T.bstat[b]

\* No call is in progress; a chain holds two entries, one of them deleted.
C24_Witness ==
    /\ \A t \in Threads : pc[t] = "idle"
    /\ tables[hm].numOfEntries = 2
    /\ tables[hm].numOfDeleted = 1
    /\ tables[hm].largestBucket = 2

\* C25: no step of a LoadOrStore call replaces the map's table reference, not
\* even the call that stores a new key and leaves the table past a resize
\* threshold; the resize step of the next Store or Delete does the rebuild.
C25_LoadOrStoreNeverRebuilds ==
    [][\A t \in Threads :
          /\ (Steps(t) /\ "LoadOrStore" \in {loc[t].op, loc'[t].op}) => hm' = hm
          /\ (ResizeStep(t) /\ resizeWanted(tables[hm])) =>
                (loc[t].op \in {"Store", "Delete"} /\ hm' # hm)]_vars

\* A LoadOrStore has stored the 97th key and returned: the table is due for
\* a rebuild and is still the current one.
C25_Witness ==
    /\ pc[1] = "ret" /\ loc[1].op = "LoadOrStore" /\ ~loc[1].ok
    /\ loc[1].h = hm
    /\ hLoad(tables[hm], loc[1].key) = <<loc[1].val, TRUE>>
    /\ resizeWanted(tables[hm])

\* A plain write ends with this step: Store or Delete releases the mutex (or
\* returns, where there is none), or a whole Store or Delete call is the step.
WriteEnds ==
    \/ \E t \in Threads :
          /\ pc[t] \in {"c_unlock", "b_unlock", "m_resize"} /\ pc'[t] = "ret"
          /\ loc[t].op \in {"Store", "Delete"}
    \/ filled' # filled
    \/ ops' # ops /\ \A t \in Threads : pc'[t] = "idle"

\* C26: when a Store or a Delete ends, the current table has fewer than 64
\* entries or a load factor from 2 to 6 and at most half its entries
\* tombstoned; and a table a rebuild has just published has no tombstone and
\* is not due for a rebuild itself.
C26_ThresholdsAfterWrite ==
    [][/\ WriteEnds => ~RebuildDue(tables'[hm'])
       /\ hm' # hm => /\ tables'[hm'].numOfDeleted = 0
                      /\ ~RebuildDue(tables'[hm'])]_vars

\* Goroutine t is inside hm.Range(f), walking a table.
Walking(t) == loc[t].op = "Range" /\ pc[t] \in {"rg_first", "rg_val", "rg_next"}

\* C27: where Range sets the flag that forbids resizing, no step replaces the
\* map's table reference while a Range is walking a table, whatever other
\* Range calls have begun or ended meanwhile.
C27_NoRebuildDuringRange ==
    [][hm' # hm => \A t \in Threads : ~Walking(t)]_vars

====
